---------------------------- MODULE Spec2Model ----------------------------
(***************************************************************************)
(* Model of the fete-voisins-api repository.                               *)
(*                                                                         *)
(*   EdgeProxy  (src/api.js): handleRequest, one inbound request at a time *)
(*              followed through its suspension points (body read, fetch,  *)
(*              response.text()).  Specification: ProxySpec.               *)
(*   ApiClient  (src/unnamed/part_000): FeteVoisinsApiClient, several      *)
(*              asynchronous invocations interleaving at their awaits.     *)
(*              Specification: ClientSpec.                                 *)
(*              validateFormData, a pure function, is applied to forms     *)
(*              drawn by the initial state.  Specification: ValidateSpec.  *)
(*                                                                         *)
(* JavaScript strings that the code searches, parses or concatenates are   *)
(* sequences (of characters or of words); null/undefined is NULL for       *)
(* atoms and Absent for sequences.  Messages are spelled without accents.  *)
(*                                                                         *)
(* A step of the client is what the event loop runs without interruption: *)
(* a call of a public method up to its first network await, or the        *)
(* settling of one fetch()/response.text() with every promise continuation *)
(* that follows, up to the next network await.                             *)
(***************************************************************************)
EXTENDS Integers, Sequences, FiniteSets, TLC

VARIABLES
    \* ---- EdgeProxy (src/api.js) ----
    request,         \* the inbound Request being handled (NoRequest when idle)
    proxyPc,         \* position of handleRequest: idle/awaitBody/awaitFetch/awaitText/done
    body,            \* local `body` of the POST branch
    upstream,        \* the Response object fetch() resolved with
    response,        \* the Response handleRequest returned
    upstreamCalls,   \* fetch() calls issued for the current request
    bodyRead,        \* whether request.json()/request.text() was called
    \* ---- ApiClient (src/unnamed/part_000) ----
    csrfToken,       \* this.csrfToken
    lastError,       \* this.lastError
    isInitialized,   \* this.isInitialized
    events,          \* CustomEvents dispatched on document by the latest step, in order
    tasks,           \* the invocations of the public methods in flight, by id
    settled,         \* the invocation whose promise settled last, as its caller sees it
    \* ---- validateFormData called on its own ----
    checkedForm,     \* the formData handed to validateFormData
    verdict          \* what validateFormData did with it (Absent before the call)

proxyVars  == <<request, proxyPc, body, upstream, response, upstreamCalls, bodyRead>>
clientVars == <<csrfToken, lastError, isInitialized, events, tasks, settled>>
formVars   == <<checkedForm, verdict>>
vars       == <<proxyVars, clientVars, formVars>>

-----------------------------------------------------------------------------
(* Bounds *)

MaxParams == 2        \* query parameters on an inbound GET
MaxTasks  == 1        \* client invocations besides the constructor's init
MaxPortions == 102    \* largest portions value handed to validateFormData
MaxPersons  == 22     \* largest nbPersonnes value handed to validateFormData

-----------------------------------------------------------------------------
(* JavaScript values *)

NULL   == "<null>"           \* null / undefined for atoms
Absent == <<"<null>">>       \* null / undefined where a string is a sequence

Truthy(s) == s # Absent /\ s # <<>>       \* truthiness of a string-or-undefined
TruthyAtom(a) == a # NULL /\ a # ""

IsPrefixAt(s, sub, i) ==
    \A k \in 1..Len(sub) : i + k - 1 <= Len(s) /\ s[i + k - 1] = sub[k]

\* String.prototype.includes / Array.prototype.includes on a sequence
Includes(s, sub) == \E i \in 1..(Len(s) - Len(sub) + 1) : IsPrefixAt(s, sub, i)

Digits == <<"0", "1", "2", "3", "4", "5", "6", "7", "8", "9">>
IsDigit(c) == \E d \in 1..10 : Digits[d] = c
DigitVal(c) == (CHOOSE d \in 1..10 : Digits[d] = c) - 1
IsSpace(c) == c \in {" ", "\t", "\n"}

NaN == -999999999    \* parseInt's NaN: every comparison with it is false

RECURSIVE SkipSpaces(_)
SkipSpaces(s) == IF s # <<>> /\ IsSpace(Head(s)) THEN SkipSpaces(Tail(s)) ELSE s

RECURSIVE DigitRun(_, _)
\* value of the longest leading run of digits of s, continuing from acc
DigitRun(s, acc) ==
    IF s # <<>> /\ IsDigit(Head(s))
    THEN DigitRun(Tail(s), 10 * acc + DigitVal(Head(s)))
    ELSE acc

\* parseInt(string): leading blanks, an optional sign, then decimal digits up
\* to the first other character; NaN when no digit is found.
parseInt(str) ==
    LET s    == SkipSpaces(str)
        neg  == s # <<>> /\ Head(s) = "-"
        rest == IF s # <<>> /\ Head(s) \in {"-", "+"} THEN Tail(s) ELSE s
    IN  IF rest = <<>> \/ ~IsDigit(Head(rest)) THEN NaN
        ELSE IF neg THEN 0 - DigitRun(rest, 0) ELSE DigitRun(rest, 0)

isNaN(n) == n = NaN
Gt(a, b) == ~isNaN(a) /\ ~isNaN(b) /\ a > b
Lt(a, b) == ~isNaN(a) /\ ~isNaN(b) /\ a < b

RECURSIVE ToDigits(_)
\* decimal rendering of a natural number
ToDigits(n) ==
    IF n < 10 THEN <<Digits[n + 1]>>
    ELSE Append(ToDigits(n \div 10), Digits[(n % 10) + 1])

\* String(n) for an integer
NumberToString(n) == IF n < 0 THEN <<"-">> \o ToDigits(0 - n) ELSE ToDigits(n)

-----------------------------------------------------------------------------
(* EdgeProxy: configuration (src/api.js 1-4) *)

ALLOWED_ORIGINS  == {"https://djamchid.github.io"}
MAX_PAYLOAD_SIZE == 1024 * 1024

(* EdgeProxy: inbound requests *)

Methods  == {"GET", "POST", "OPTIONS", "PUT", "DELETE"}
Origins  == {NULL, "https://djamchid.github.io", "https://evil.example"}

JsonType == <<"application/json">>
ContentTypes ==
    {Absent, JsonType, <<"application/json", "; charset=utf-8">>, <<"text/plain">>}

ContentLengths ==
    {Absent, <<>>, <<"a", "b", "c">>,
     ToDigits(0), ToDigits(MAX_PAYLOAD_SIZE - 1), ToDigits(MAX_PAYLOAD_SIZE),
     ToDigits(MAX_PAYLOAD_SIZE + 1), ToDigits(2 * MAX_PAYLOAD_SIZE)}

\* raw request bodies: a compact JSON object, the same object with blanks,
\* a JSON string, broken JSON, and the empty body
CompactJson == "{\"nom\":\"a\"}"
SpacedJson  == "{ \"nom\" : \"a\" }"
StringJson  == "\"abc\""
BrokenJson  == "{nom:"
RawBodies == {CompactJson, SpacedJson, StringJson, BrokenJson, ""}

ParamPairs == {<<"action", "getData">>, <<"origin", "o">>, <<"action", "x">>}

RECURSIVE SeqsUpTo(_, _)
SeqsUpTo(S, n) ==
    IF n = 0 THEN {<<>>}
    ELSE LET shorter == SeqsUpTo(S, n - 1)
         IN  shorter \cup {Append(q, x) : q \in shorter, x \in S}

Requests ==
    [method : Methods, origin : Origins, contentLength : ContentLengths,
     contentType : ContentTypes, body : RawBodies,
     params : SeqsUpTo(ParamPairs, MaxParams)]

NoRequest ==
    [method |-> NULL, origin |-> NULL, contentLength |-> Absent,
     contentType |-> Absent, body |-> "", params |-> <<>>]

(* EdgeProxy: Response objects *)

NoBody     == [type |-> "none", v |-> ""]
NoHeaders  == [h \in {} |-> ""]
NoResponse == [status |-> 0, headers |-> NoHeaders, body |-> NULL]
NoUpstream == [status |-> 0, body |-> NULL]

JsonHeader == "Content-Type" :> "application/json"

ErrorJson(message) == "{\"result\":\"error\",\"error\":\"" \o message \o "\"}"

\* ALLOWED_ORIGINS.includes(origin)
OriginAllowedOrAbsent(origin) == origin = NULL \/ origin \in ALLOWED_ORIGINS
OriginAllowed(origin) == origin \in ALLOWED_ORIGINS

WildcardCors(origin) ==
    ("Access-Control-Allow-Origin"  :> "*") @@
    ("Access-Control-Allow-Methods" :> "GET, POST, OPTIONS") @@
    ("Access-Control-Allow-Headers" :> "Content-Type, X-Requested-With") @@
    ("Access-Control-Max-Age"       :> "86400")
corsHeaders(origin) ==
    ("Access-Control-Allow-Origin"  :> origin) @@
    ("Access-Control-Allow-Methods" :> "GET, POST, OPTIONS") @@
    ("Access-Control-Allow-Headers" :> "Content-Type, X-Requested-With") @@
    ("Access-Control-Max-Age"       :> "86400")

(* EdgeProxy: the responses handleRequest builds *)

Forbidden ==
    [status |-> 403, headers |-> JsonHeader,
     body |-> ErrorJson("Origine non autorisee")]

PreflightOk(origin) ==
    [status |-> 200, headers |-> corsHeaders(origin), body |-> ""]
Preflight(origin) ==
    [status |-> 204, headers |-> corsHeaders(origin), body |-> NULL]

PayloadTooLarge(origin) ==
    [status |-> 413, headers |-> JsonHeader @@ corsHeaders(origin),
     body |-> ErrorJson("Taille de la requete trop importante")]

BadJson(origin) ==
    [status |-> 400, headers |-> JsonHeader @@ corsHeaders(origin),
     body |-> ErrorJson("Format JSON invalide")]

ServerError(origin) ==
    [status |-> 500, headers |-> JsonHeader @@ corsHeaders(origin),
     body |-> ErrorJson("Erreur lors de la communication avec le serveur")]

MethodNotAllowedBare(origin) ==
    [status |-> 405, headers |-> JsonHeader @@ corsHeaders(origin),
     body |-> ErrorJson("Methode non supportee")]
MethodNotAllowed(origin) ==
    [status |-> 405,
     headers |-> ("Allow" :> "GET, POST, OPTIONS") @@ JsonHeader @@ corsHeaders(origin),
     body |-> ErrorJson("Methode non supportee")]

\* new Response(data, {status}) throws for a null-body status with a body
NullBodyStatus(status) == status \in {101, 204, 205, 304}

\* the relay of the upstream response; a throwing Response constructor lands
\* in the catch block of the branch
Relay(up, origin) ==
    IF NullBodyStatus(up.status) THEN ServerError(origin)
    ELSE [status |-> up.status, headers |-> JsonHeader @@ corsHeaders(origin),
          body |-> up.body]

(* EdgeProxy: request parsing *)

\* parseInt(request.headers.get('Content-Length') || '0') > MAX_PAYLOAD_SIZE
TooLargeOrEqual(contentLength) ==
    ~Lt(parseInt(IF Truthy(contentLength) THEN contentLength ELSE <<"0">>),
        MAX_PAYLOAD_SIZE)
TooLarge(contentLength) ==
    Gt(parseInt(IF Truthy(contentLength) THEN contentLength ELSE <<"0">>),
       MAX_PAYLOAD_SIZE)

\* contentType && contentType.includes('application/json')
IsJsonExactly(contentType) == contentType = JsonType
IsJson(contentType) == Truthy(contentType) /\ Includes(contentType, JsonType)

\* request.json(): the parsed value, or a SyntaxError
JsonParse(raw) ==
    CASE raw = CompactJson -> [ok |-> TRUE,  type |-> "object", v |-> CompactJson]
      [] raw = SpacedJson  -> [ok |-> TRUE,  type |-> "object", v |-> CompactJson]
      [] raw = StringJson  -> [ok |-> TRUE,  type |-> "string", v |-> "abc"]
      [] OTHER             -> [ok |-> FALSE, type |-> "none",   v |-> ""]

\* searchParams.set in place of append: a repeated key keeps its last value
SetAll(target, params) ==
    LET last == {i \in 1..Len(params) :
                    \A j \in (i + 1)..Len(params) : params[j][1] # params[i][1]}
        copied[k \in 0..Len(params)] ==
            IF k = 0 THEN target
            ELSE IF k \in last THEN Append(copied[k - 1], params[k])
            ELSE copied[k - 1]
    IN  copied[Len(params)]

RECURSIVE AppendAll(_, _)
\* for (const [key, value] of params) apiUrl.searchParams.append(key, value)
AppendAll(target, params) ==
    IF params = <<>> THEN target
    ELSE AppendAll(Append(target, <<Head(params)[1], Head(params)[2]>>), Tail(params))

UpstreamGet(req) ==
    [method |-> "GET", params |-> AppendAll(<<>>, req.params),
     contentType |-> Absent, body |-> NULL]

\* body: typeof body === 'string' ? body : JSON.stringify(body); v already
\* holds the string itself, or the serialisation of the parsed object
UpstreamPost(req, b) ==
    [method |-> "POST", params |-> <<>>,
     contentType |-> IF Truthy(req.contentType) THEN req.contentType ELSE JsonType,
     body |-> b.v]

(* EdgeProxy: what Upstream may answer *)

UpstreamStatuses == {200, 204, 403, 404, 500}
UpstreamBodies   == {"{\"result\":\"success\",\"data\":[]}", "<html>", ""}

-----------------------------------------------------------------------------
(* EdgeProxy: handleRequest, step by step *)

ProxyInit ==
    /\ request = NoRequest
    /\ proxyPc = "idle"
    /\ body = NoBody
    /\ upstream = NoUpstream
    /\ response = NoResponse
    /\ upstreamCalls = <<>>
    /\ bodyRead = FALSE

\* handleRequest from its entry to its first suspension point or return
Receive(req) ==
    /\ proxyPc = "idle"
    /\ request' = req
    /\ body' = NoBody
    /\ upstream' = NoUpstream
    /\ IF ~OriginAllowed(req.origin)
       THEN /\ response' = Forbidden
            /\ proxyPc' = "done"
            /\ UNCHANGED <<upstreamCalls, bodyRead>>
       ELSE IF req.method = "OPTIONS"
       THEN /\ response' = Preflight(req.origin)
            /\ proxyPc' = "done"
            /\ UNCHANGED <<upstreamCalls, bodyRead>>
       ELSE IF req.method = "GET"
       THEN /\ upstreamCalls' = Append(upstreamCalls, UpstreamGet(req))
            /\ proxyPc' = "awaitFetch"
            /\ UNCHANGED <<response, bodyRead>>
       ELSE IF req.method = "POST"
       THEN IF TooLarge(req.contentLength)
            THEN /\ response' = PayloadTooLarge(req.origin)
                 /\ proxyPc' = "done"
                 /\ UNCHANGED <<upstreamCalls, bodyRead>>
            ELSE /\ bodyRead' = TRUE
                 /\ proxyPc' = "awaitBody"
                 /\ UNCHANGED <<response, upstreamCalls>>
       ELSE /\ response' = MethodNotAllowed(req.origin)
            /\ proxyPc' = "done"
            /\ UNCHANGED <<upstreamCalls, bodyRead>>
    /\ UNCHANGED <<clientVars, formVars>>

\* request.json() / request.text() settles; readOk = FALSE is a failed read
BodySettle(readOk) ==
    /\ proxyPc = "awaitBody"
    /\ LET parsed == JsonParse(request.body)
           text   == [ok |-> TRUE, type |-> "string", v |-> request.body]
       IN  IF IsJson(request.contentType)
           THEN IF readOk /\ parsed.ok
                THEN /\ body' = [type |-> parsed.type, v |-> parsed.v]
                     /\ upstreamCalls' =
                            Append(upstreamCalls, UpstreamPost(request, parsed))
                     /\ proxyPc' = "awaitFetch"
                     /\ UNCHANGED response
                ELSE /\ response' = BadJson(request.origin)
                     /\ proxyPc' = "done"
                     /\ UNCHANGED <<body, upstreamCalls>>
           ELSE IF readOk
                THEN /\ body' = [type |-> "string", v |-> request.body]
                     /\ upstreamCalls' =
                            Append(upstreamCalls, UpstreamPost(request, text))
                     /\ proxyPc' = "awaitFetch"
                     /\ UNCHANGED response
                ELSE /\ response' = ServerError(request.origin)
                     /\ proxyPc' = "done"
                     /\ UNCHANGED <<body, upstreamCalls>>
    /\ UNCHANGED <<request, upstream, bodyRead>>
    /\ UNCHANGED <<clientVars, formVars>>

\* fetch() resolves with the upstream Response
FetchResolve(status) ==
    /\ proxyPc = "awaitFetch"
    /\ upstream' = [status |-> status, body |-> NULL]
    /\ proxyPc' = "awaitText"
    /\ UNCHANGED <<request, body, response, upstreamCalls, bodyRead>>
    /\ UNCHANGED <<clientVars, formVars>>

\* fetch() rejects (network failure): the catch block of the branch
FetchReject ==
    /\ proxyPc = "awaitFetch"
    /\ response' = ServerError(request.origin)
    /\ proxyPc' = "done"
    /\ UNCHANGED <<request, body, upstream, upstreamCalls, bodyRead>>
    /\ UNCHANGED <<clientVars, formVars>>

\* response.text() resolves and the Response is returned
TextResolve(data) ==
    /\ proxyPc = "awaitText"
    /\ upstream' = [upstream EXCEPT !.body = data]
    /\ response' = Relay(upstream', request.origin)
    /\ proxyPc' = "done"
    /\ UNCHANGED <<request, body, upstreamCalls, bodyRead>>
    /\ UNCHANGED <<clientVars, formVars>>

\* response.text() rejects: the catch block of the branch
TextReject ==
    /\ proxyPc = "awaitText"
    /\ response' = ServerError(request.origin)
    /\ proxyPc' = "done"
    /\ UNCHANGED <<request, body, upstream, upstreamCalls, bodyRead>>
    /\ UNCHANGED <<clientVars, formVars>>

\* the invocation is over; the proxy keeps nothing between requests
ProxyReset ==
    /\ proxyPc = "done"
    /\ request' = NoRequest
    /\ proxyPc' = "idle"
    /\ body' = NoBody
    /\ upstream' = NoUpstream
    /\ response' = NoResponse
    /\ upstreamCalls' = <<>>
    /\ bodyRead' = FALSE
    /\ UNCHANGED <<clientVars, formVars>>

-----------------------------------------------------------------------------
(* ApiClient: form validation (src/unnamed/part_000 230-282) *)

\* /^[^\s@]+@[^\s@]+\.[^\s@]+$/ : the three runs may themselves hold dots
EmailPart(s, from, to) ==
    /\ from <= to
    /\ \A k \in from..to : ~IsSpace(s[k]) /\ s[k] # "@"
emailRegex(s) ==
    \E i \in 1..Len(s), j \in 1..Len(s) :
        /\ s[i] = "@" /\ s[j] = "."
        /\ EmailPart(s, 1, i - 1)
        /\ EmailPart(s, i + 1, j - 1)
        /\ EmailPart(s, j + 1, Len(s))

\* /^[0-9]{10}$/
phoneRegex(s) == Len(s) = 10 /\ \A k \in 1..Len(s) : IsDigit(s[k])

RECURSIVE TrimLeft(_)
TrimLeft(s) == IF s # <<>> /\ IsSpace(Head(s)) THEN TrimLeft(Tail(s)) ELSE s
RECURSIVE TrimRight(_)
TrimRight(s) ==
    IF s # <<>> /\ IsSpace(s[Len(s)]) THEN TrimRight(SubSeq(s, 1, Len(s) - 1)) ELSE s
Trim(s) == TrimRight(TrimLeft(s))

requiredFields  == <<"nom", "email", "categorie", "detail", "portions">>
validCategories == {<<"sale">>, <<"sucre">>, <<"soft">>, <<"alco">>}

RECURSIVE MissingFields(_, _)
\* the loop over requiredFields from index i on: names of the falsy fields
MissingFields(data, i) ==
    IF i > Len(requiredFields) THEN <<>>
    ELSE (IF ~Truthy(data[requiredFields[i]]) THEN <<requiredFields[i]>> ELSE <<>>)
         \o MissingFields(data, i + 1)

RECURSIVE Join(_, _)
\* Array.prototype.join
Join(names, sep) ==
    IF names = <<>> THEN <<>>
    ELSE IF Len(names) = 1 THEN names
    ELSE <<Head(names), sep>> \o Join(Tail(names), sep)

Valid == <<>>     \* validateFormData returned true

PersonsInRangeOff(n) == ~(isNaN(n) \/ Lt(n, 0) \/ Gt(n, 20))
PersonsInRange(n) == ~(isNaN(n) \/ Lt(n, 1) \/ Gt(n, 20))

PortionsInRangeOff(n) == ~(isNaN(n) \/ Lt(n, 1) \/ Gt(n, 101))
PortionsInRange(n) == ~(isNaN(n) \/ Lt(n, 1) \/ Gt(n, 100))

ValidateNothing(data) == Valid
\* the message of the Error validateFormData throws, or Valid
validateFormData(data) ==
    IF data.isNull THEN <<"Aucune donnee fournie">>
    ELSE IF MissingFields(data, 1) # <<>>
    THEN <<"Champs obligatoires manquants: ">> \o Join(MissingFields(data, 1), ", ")
    ELSE IF ~emailRegex(data.email) THEN <<"Format d'email invalide">>
    ELSE IF data.categorie \notin validCategories THEN <<"Categorie invalide">>
    ELSE IF ~PersonsInRange(parseInt(data.nbPersonnes))
    THEN <<"Nombre de personnes invalide (doit etre entre 1 et 20)">>
    ELSE IF ~PortionsInRange(parseInt(data.portions))
    THEN <<"Nombre de portions invalide (doit etre entre 1 et 100)">>
    ELSE IF Truthy(data.telephone) /\ Trim(data.telephone) # <<>>
            /\ ~phoneRegex(data.telephone)
    THEN <<"Format de telephone invalide (10 chiffres attendus)">>
    ELSE Valid

(* ApiClient: forms handed to submitContribution *)

GoodEmail == <<"a", "@", "b", ".", "c">>

ValidForm ==
    [isNull |-> FALSE, nom |-> <<"n">>, email |-> GoodEmail, categorie |-> <<"sale">>,
     detail |-> <<"d">>, portions |-> ToDigits(100), nbPersonnes |-> ToDigits(20),
     telephone |-> Absent]

NullForm  == [ValidForm EXCEPT !.isNull = TRUE]
EmptyForm ==
    [isNull |-> FALSE, nom |-> Absent, email |-> Absent, categorie |-> Absent,
     detail |-> Absent, portions |-> Absent, nbPersonnes |-> Absent,
     telephone |-> Absent]
TooManyPortions == [ValidForm EXCEPT !.portions = ToDigits(101)]
NoPersons       == [ValidForm EXCEPT !.nbPersonnes = ToDigits(0)]
BadEmail        == [ValidForm EXCEPT !.email = <<"a", "@", "b">>]
BadPhone        == [ValidForm EXCEPT !.telephone = <<"0", "6">>]

Forms == {ValidForm, EmptyForm, TooManyPortions}

\* otherwise valid forms whose two counts are integers, in decimal
CountForm(portions, nbPersonnes) ==
    [ValidForm EXCEPT !.portions = NumberToString(portions),
                      !.nbPersonnes = NumberToString(nbPersonnes)]
CountForms ==
    {CountForm(p, n) : p \in -1..MaxPortions, n \in -1..MaxPersons}

-----------------------------------------------------------------------------
(* ApiClient: what Upstream may answer to the client *)

Jeton == <<"jeton invalide">>     \* the marker submitContribution looks for

Json(result, error, csrf, new, data) ==
    [result |-> result, error |-> error, csrfToken |-> csrf,
     newCsrfToken |-> new, data |-> data]
NoJson == Json(NULL, Absent, NULL, NULL, NULL)

\* parsed bodies of 2xx responses: a token grant, a grant with both token
\* fields, a new token alone, a data envelope, the invalid-token error, an
\* error that carries a token, the invalid-token marker outside an error
\* envelope, and the empty object
JsonObjects ==
    { Json(NULL, Absent, "C1", NULL, NULL),
      Json(NULL, Absent, "C2", "N1", NULL),
      Json(NULL, Absent, NULL, "N1", NULL),
      Json("success", Absent, NULL, NULL, "array"),
      Json("error", Jeton, NULL, NULL, NULL),
      Json("error", <<"CSRF: ", "jeton invalide">>, "C2", NULL, NULL),
      Json(NULL, Jeton, NULL, NULL, NULL),
      NoJson }

\* a reply: fetch rejects, a non-2xx status, a body that is not JSON, or a
\* JSON object
Reply(kind, json) == [kind |-> kind, json |-> json]
NoReply        == Reply("pending", NoJson)
NetworkFailure == Reply("reject", NoJson)
HttpError      == Reply("http", NoJson)
Garbage        == Reply("garbage", NoJson)
FetchReplies   == {NetworkFailure, HttpError, NoReply}
TextReplies    == {Garbage} \cup {Reply("json", j) : j \in JsonObjects}

(* ApiClient: the invocations *)

Constructor == 0
Tasks == 0..MaxTasks

NoRet == [kind |-> "none", value |-> NoJson, message |-> <<>>]
Return(value) == [kind |-> "return", value |-> value, message |-> <<>>]
Throw(message) == [kind |-> "throw", value |-> NoJson, message |-> message]

IdleTask ==
    [op |-> "idle", stack |-> <<>>, ret |-> NoRet, form |-> NullForm,
     lazy |-> FALSE, log |-> <<>>, outcome |-> NoRet]

\* a slot whose invocation is over
OverTask == [IdleTask EXCEPT !.op = "over"]

Top(task) == task.stack[Len(task.stack)]
Running(task) == task.stack # <<>>

\* error.message || fallback
OrElse(message, fallback) == IF Truthy(message) THEN message ELSE fallback

\* the callee on top of the stack finishes with r: its caller resumes with r,
\* or, when it was the method the page called, the promise settles with r
Complete(task, r) ==
    LET rest == SubSeq(task.stack, 1, Len(task.stack) - 1)
    IN  IF rest = <<>>
        THEN [task EXCEPT !.stack = <<>>, !.ret = NoRet, !.outcome = r]
        ELSE [task EXCEPT !.stack = rest, !.ret = r]

\* a function is entered, respectively moves on to its next await
Enter(task, frame) == [task EXCEPT !.stack = Append(@, frame), !.ret = NoRet]
Goto(task, frame)  == [task EXCEPT !.stack[Len(task.stack)] = frame, !.ret = NoRet]

\* makeRequest up to `await fetch(...)` (84-124); held is this.csrfToken
CallMakeRequest(task, method, action, held) ==
    [Enter(task, "mr.fetch") EXCEPT
        !.log = Append(@,
                  [method |-> method, action |-> action,
                   form  |-> IF method = "POST" THEN task.form ELSE NullForm,
                   token |-> IF method = "POST" THEN held ELSE NULL,
                   reply |-> NoReply])]

\* refreshCsrfToken up to its await (58-62)
CallRefresh(task, held) ==
    CallMakeRequest(Enter(task, "refresh"), "GET", "origin", held)

\* an init that waits for a refresh already in flight, issuing none
CallInitShared(task, held) ==
    Enter(Enter(Enter(task, "init"), "refresh"), "mr.fetch")

\* init up to its await (27-32)
CallInit(task, held) == CallRefresh(Enter(task, "init"), held)

\* a fresh invocation of a public method
Invoke(op, form, lazy) ==
    [IdleTask EXCEPT !.op = op, !.form = form, !.lazy = lazy]

\* the last call of the log is answered; the answer itself is kept for the
\* form POSTs only
Settled == Reply("settled", NoJson)
Answered(task, reply) ==
    [task EXCEPT !.log[Len(task.log)].reply =
        IF task.log[Len(task.log)].method = "POST" THEN reply ELSE Settled]

\* lines 144-151: the token held after a parsed response
TokenAfterCsrfFirst(held, json) ==
    IF TruthyAtom(json.csrfToken) THEN json.csrfToken
    ELSE IF TruthyAtom(json.newCsrfToken) THEN json.newCsrfToken
    ELSE held
TokenAfter(held, json) ==
    IF TruthyAtom(json.newCsrfToken) THEN json.newCsrfToken
    ELSE IF TruthyAtom(json.csrfToken) THEN json.csrfToken
    ELSE held

ClientInit ==
    /\ csrfToken = NULL
    /\ lastError = Absent
    /\ isInitialized = FALSE
    /\ events = <<>>
    /\ tasks = [t \in Tasks |->
                 IF t = Constructor
                 THEN CallInit(Invoke("init", NullForm, FALSE), NULL)
                 ELSE IdleTask]
    /\ settled = IdleTask

-----------------------------------------------------------------------------
(* ApiClient: the code between two awaits, as a function of the client      *)
(* object and of the invocation that runs                                  *)

\* `this` together with the running invocation
This(task) ==
    [csrfToken |-> csrfToken, lastError |-> lastError,
     isInitialized |-> isInitialized, events |-> <<>>, task |-> task]

HttpMessage   == <<"Erreur HTTP: ", "500", " ", "Internal Server Error">>
FetchMessage  == <<"Failed to fetch">>
RefreshPrefix == <<"Erreur de rafraichissement du jeton: ">>
GetPrefix     == <<"Erreur lors de la recuperation des contributions: ">>
SubmitPrefix  == <<"Erreur lors de l'envoi de la contribution: ">>

\* a catch block that also drops the token and the initialized flag
MakeRequestFailsAndResets(c, reply, message) ==
    [c EXCEPT !.lastError = OrElse(message, <<"Erreur de communication">>),
              !.csrfToken = NULL,
              !.isInitialized = FALSE,
              !.task = Complete(Answered(c.task, reply), Throw(message))]

\* makeRequest's catch block (160-164): record the message and rethrow
MakeRequestFails(c, reply, message) ==
    [c EXCEPT !.lastError = OrElse(message, <<"Erreur de communication">>),
              !.task = Complete(Answered(c.task, reply), Throw(message))]

\* makeRequest after `await fetch` (124-132): a rejection or a non-2xx status
\* is thrown; otherwise makeRequest awaits response.text()
makeRequestFetched(c, reply) ==
    IF reply = NetworkFailure THEN MakeRequestFails(c, reply, FetchMessage)
    ELSE IF reply = HttpError THEN MakeRequestFails(c, reply, HttpMessage)
    ELSE [c EXCEPT !.task = Goto(c.task, "mr.text")]

\* the Error makeRequest throws after reading the body (135-157), or <<>>
ResponseError(reply) ==
    IF reply.kind = "garbage" THEN <<"Format de reponse invalide">>
    ELSE IF reply.json.result = "error"
         THEN OrElse(reply.json.error, <<"Erreur inconnue">>)
    ELSE <<>>

\* a makeRequest that checks the envelope for an error before it looks at
\* the tokens
makeRequestReadErrorFirst(c, reply) ==
    LET held == IF reply.kind = "json" THEN TokenAfter(c.csrfToken, reply.json)
                ELSE c.csrfToken
    IN  IF ResponseError(reply) # <<>>
        THEN MakeRequestFails(c, reply, ResponseError(reply))
        ELSE [c EXCEPT
                !.csrfToken = held,
                !.task = Complete(Answered(c.task, reply), Return(reply.json))]

\* makeRequest after `await response.text()` (132-165): parse, update the
\* token, check for an error in the envelope
makeRequestRead(c, reply) ==
    LET held == IF reply.kind = "json" THEN TokenAfter(c.csrfToken, reply.json)
                ELSE c.csrfToken
        updated == [c EXCEPT !.csrfToken = held]
    IN  IF ResponseError(reply) # <<>>
        THEN MakeRequestFails(updated, reply, ResponseError(reply))
        ELSE [updated EXCEPT
                !.task = Complete(Answered(c.task, reply), Return(reply.json))]

NoTokenMessage == <<"Pas de jeton CSRF dans la reponse">>

\* a refresh that takes response.csrfToken without testing it
refreshCsrfTokenUnchecked(c) ==
    LET r == c.task.ret
    IN  IF r.kind = "return"
        THEN [c EXCEPT !.csrfToken = r.value.csrfToken,
                       !.task = Complete(c.task, Return(NoJson))]
        ELSE [c EXCEPT !.lastError = RefreshPrefix \o OrElse(r.message, <<"Erreur inconnue">>),
                       !.task = Complete(c.task, Throw(r.message))]

\* refreshCsrfToken after makeRequest (64-74)
refreshCsrfToken(c) ==
    LET r == c.task.ret
        message == IF r.kind = "return" THEN NoTokenMessage ELSE r.message
    IN  IF r.kind = "return" /\ TruthyAtom(r.value.csrfToken)
        THEN [c EXCEPT !.csrfToken = r.value.csrfToken,
                       !.task = Complete(c.task, Return(NoJson))]
        ELSE [c EXCEPT !.lastError = RefreshPrefix \o OrElse(message, <<"Erreur inconnue">>),
                       !.task = Complete(c.task, Throw(message))]

ReadyEvent        == [type |-> "fete-voisins-api-ready", detail |-> Absent]
ErrorEvent(error) == [type |-> "fete-voisins-api-error", detail |-> error]

\* init after refreshCsrfToken (34-52); init never throws
init(c) ==
    LET r == c.task.ret
        message == OrElse(r.message, <<"Erreur d'initialisation">>)
    IN  IF r.kind = "return"
        THEN [c EXCEPT !.isInitialized = TRUE,
                       !.events = Append(@, ReadyEvent),
                       !.task = Complete(c.task, Return(NoJson))]
        ELSE [c EXCEPT !.lastError = message,
                       !.events = Append(@, ErrorEvent(message)),
                       !.task = Complete(c.task, Return(NoJson))]

\* getContributions after the lazy init (177)
getContributionsReady(c) ==
    [c EXCEPT !.task = CallMakeRequest(Goto(c.task, "get.req"), "GET", "getData",
                                       c.csrfToken)]

\* getContributions after makeRequest (181-190)
getContributions(c) ==
    LET r == c.task.ret
        message == IF r.kind = "return" THEN <<"Format de donnees invalide">>
                   ELSE r.message
    IN  IF r.kind = "return" /\ r.value.result = "success" /\ r.value.data = "array"
        THEN [c EXCEPT !.task = Complete(c.task, r)]
        ELSE [c EXCEPT !.lastError = GetPrefix \o OrElse(message, <<"Erreur inconnue">>),
                       !.task = Complete(c.task, Throw(message))]

\* submitContribution's catch block (218-222)
SubmitFails(c, message) ==
    [c EXCEPT !.lastError = SubmitPrefix \o OrElse(message, <<"Erreur inconnue">>),
              !.task = Complete(c.task, Throw(message))]

\* submitContribution from the validation to the first POST (204-207)
submitContributionReady(c) ==
    IF validateFormData(c.task.form) = Valid
    THEN [c EXCEPT !.task = CallMakeRequest(Goto(c.task, "sub.post"), "POST", "form",
                                            c.csrfToken)]
    ELSE SubmitFails(c, validateFormData(c.task.form))

\* response.error && response.error.includes('jeton invalide') (210)
RetryWanted(json) == Truthy(json.error) /\ Includes(json.error, Jeton)

\* submitContribution after the first POST (209-222)
submitContribution(c) ==
    LET r == c.task.ret
    IN  IF r.kind = "throw" THEN SubmitFails(c, r.message)
        ELSE IF RetryWanted(r.value)
        THEN [c EXCEPT !.task = CallRefresh(Goto(c.task, "sub.refresh"), c.csrfToken)]
        ELSE [c EXCEPT !.task = Complete(c.task, r)]

\* submitContribution after the refresh of the retry (213-214)
submitContributionRetry(c) ==
    LET r == c.task.ret
    IN  IF r.kind = "throw" THEN SubmitFails(c, r.message)
        ELSE [c EXCEPT !.task = CallMakeRequest(Goto(c.task, "sub.repost"), "POST",
                                                "form", c.csrfToken)]

\* the resubmission handled like the first POST
submitContributionAgain(c) == submitContribution(c)

\* `return this.makeRequest(...)` (214): the promise of submitContribution
\* settles as the resubmission did; the catch block does not run
submitContributionResent(c) ==
    [c EXCEPT !.task = Complete(c.task, c.task.ret)]

\* the function on top of the stack resumes with the result of its callee
Resume(c) ==
    CASE Top(c.task) = "refresh"     -> refreshCsrfToken(c)
      [] Top(c.task) = "init"        -> init(c)
      [] Top(c.task) = "get.init"    -> getContributionsReady(c)
      [] Top(c.task) = "get.req"     -> getContributions(c)
      [] Top(c.task) = "sub.init"    -> submitContributionReady(c)
      [] Top(c.task) = "sub.post"    -> submitContribution(c)
      [] Top(c.task) = "sub.refresh" -> submitContributionRetry(c)
      [] Top(c.task) = "sub.repost"  -> submitContributionResent(c)

Suspended(task) == Running(task) /\ Top(task) \in {"mr.fetch", "mr.text"}

RECURSIVE Drain(_)
\* promise continuations run until the invocation awaits the network again
\* or is over: nothing else runs in between (one thread, no preemption)
Drain(c) == IF Suspended(c.task) \/ ~Running(c.task) THEN c ELSE Drain(Resume(c))

\* the client after the step of invocation t that leaves it as c
Becomes(t, c) ==
    /\ csrfToken' = c.csrfToken
    /\ lastError' = c.lastError
    /\ isInitialized' = c.isInitialized
    /\ events' = c.events
    /\ tasks' = [tasks EXCEPT ![t] = IF Running(c.task) THEN c.task ELSE OverTask]
    /\ settled' = IF Running(c.task) THEN settled ELSE c.task
    /\ UNCHANGED <<proxyVars, formVars>>

-----------------------------------------------------------------------------
(* ApiClient: the steps *)

\* the page's calls take the free slots in order
Callable(t) ==
    /\ t # Constructor
    /\ tasks[t].op = "idle"
    /\ \A u \in Tasks : u < t => tasks[u].op # "idle"

\* the page calls init() (27-32)
StartInit(t) ==
    /\ Callable(t)
    /\ Becomes(t, This(CallInit(Invoke("init", NullForm, FALSE), csrfToken)))

\* the page calls refreshCsrfToken() (58-62)
StartRefresh(t) ==
    /\ Callable(t)
    /\ Becomes(t, This(CallRefresh(Invoke("refresh", NullForm, FALSE), csrfToken)))

\* the page calls getContributions() (171-179)
StartGet(t) ==
    /\ Callable(t)
    /\ LET call == Enter(Invoke("get", NullForm, ~isInitialized), "get.init")
       IN  Becomes(t, IF ~isInitialized
                      THEN This(CallInit(call, csrfToken))
                      ELSE getContributionsReady(This(call)))

\* the page calls submitContribution(formData) (198-207)
StartSubmit(t, formData) ==
    /\ Callable(t)
    /\ LET call == Enter(Invoke("submit", formData, ~isInitialized), "sub.init")
       IN  Becomes(t, IF ~isInitialized
                      THEN This(CallInit(call, csrfToken))
                      ELSE submitContributionReady(This(call)))

\* the fetch() of invocation t settles
FetchSettle(t, reply) ==
    /\ Running(tasks[t]) /\ Top(tasks[t]) = "mr.fetch"
    /\ Becomes(t, Drain(makeRequestFetched(This(tasks[t]), reply)))

\* the response.text() of invocation t settles
TextSettle(t, reply) ==
    /\ Running(tasks[t]) /\ Top(tasks[t]) = "mr.text"
    /\ Becomes(t, Drain(makeRequestRead(This(tasks[t]), reply)))

\* nothing has been handed to validateFormData on its own
NoValidation ==
    /\ checkedForm = NullForm
    /\ verdict = Absent

\* the page is about to call validateFormData with one of the forms
ValidateInit ==
    /\ ProxyInit
    /\ ClientInit
    /\ checkedForm \in CountForms
    /\ verdict = Absent

\* the page calls validateFormData(formData) (230-282)
Validate ==
    /\ verdict = Absent
    /\ verdict' = validateFormData(checkedForm)
    /\ UNCHANGED <<checkedForm, proxyVars, clientVars>>

-----------------------------------------------------------------------------
(* Specifications *)

ProxyNext ==
    \/ (proxyPc = "idle" /\ \E req \in Requests : Receive(req))
    \/ \E readOk \in BOOLEAN : BodySettle(readOk)
    \/ \E status \in UpstreamStatuses : FetchResolve(status)
    \/ FetchReject
    \/ \E data \in UpstreamBodies : TextResolve(data)
    \/ TextReject
    \/ ProxyReset

ClientNext ==
    \E t \in Tasks :
        \/ StartInit(t)
        \/ StartRefresh(t)
        \/ StartGet(t)
        \/ \E formData \in Forms : StartSubmit(t, formData)
        \/ \E reply \in FetchReplies : FetchSettle(t, reply)
        \/ \E reply \in TextReplies : TextSettle(t, reply)

ValidateNext == Validate

Init == ProxyInit /\ ClientInit /\ NoValidation

ProxySpec  == Init /\ [][ProxyNext]_vars
ClientSpec == Init /\ [][ClientNext]_vars

ValidateSpec == ValidateInit /\ [][ValidateNext]_vars

Next == ProxyNext \/ ClientNext \/ ValidateNext
Spec == Init /\ [][Next]_vars

-----------------------------------------------------------------------------
(* EdgeProxy: properties of handleRequest (checked under ProxySpec) *)

CorsNames ==
    {"Access-Control-Allow-Origin", "Access-Control-Allow-Methods",
     "Access-Control-Allow-Headers", "Access-Control-Max-Age"}

Received == proxyPc # "idle"
Returned == proxyPc = "done"
FromAllowedOrigin == Received /\ request.origin \in ALLOWED_ORIGINS

\* C1: a request whose Origin is not in the allow-list (an absent Origin
\* included) is answered 403 at once, whatever its method, Content-Length,
\* Content-Type and body: no upstream call is made and the body is not read.
C1_RejectedOriginIs403 ==
    (Received /\ request.origin \notin ALLOWED_ORIGINS)
        => /\ Returned
           /\ response.status = 403
           /\ upstreamCalls = <<>>
           /\ ~bodyRead

C1_Witness ==
    /\ Returned
    /\ request.origin = NULL
    /\ request.method = "POST"
    /\ request.contentLength = ToDigits(2 * MAX_PAYLOAD_SIZE)
    /\ response.status = 403

\* C4 as stated: every response handleRequest returns, the 403 included,
\* carries the CORS header set with Access-Control-Allow-Origin equal to the
\* request's Origin.
C4_EveryResponseHasCors ==
    Returned
        => /\ CorsNames \subseteq DOMAIN response.headers
           /\ response.headers["Access-Control-Allow-Origin"] = request.origin
           /\ response.headers["Access-Control-Allow-Origin"] # "*"

\* C4 amended: every response to a request from an allowed origin (204, 400,
\* 405, 413, 500 and the relayed upstream responses) carries the CORS header
\* set with Access-Control-Allow-Origin equal to the request's Origin, never a
\* wildcard; the 403 that rejects an origin carries no CORS header at all.
C4_AllowedOriginResponsesHaveCors ==
    Returned
        => IF request.origin \in ALLOWED_ORIGINS
           THEN /\ CorsNames \subseteq DOMAIN response.headers
                /\ response.headers["Access-Control-Allow-Origin"] = request.origin
                /\ response.headers["Access-Control-Allow-Origin"] # "*"
           ELSE /\ response.status = 403
                /\ CorsNames \cap DOMAIN response.headers = {}

C4_Witness ==
    /\ Returned
    /\ request.origin \in ALLOWED_ORIGINS
    /\ response.status = 500
    /\ upstreamCalls # <<>>
    /\ response.headers["Access-Control-Allow-Origin"] = request.origin

LengthsOverLimit ==
    {ToDigits(MAX_PAYLOAD_SIZE + 1), ToDigits(2 * MAX_PAYLOAD_SIZE)}

\* C5: a POST from an allowed origin that declares a Content-Length above
\* 1048576 is answered 413 without the body being read and without an
\* upstream call; a declared Content-Length of exactly 1048576 is not.
C5_OversizedPostIs413 ==
    (FromAllowedOrigin /\ request.method = "POST")
        => /\ request.contentLength \in LengthsOverLimit
                => /\ Returned
                   /\ response.status = 413
                   /\ ~bodyRead
                   /\ upstreamCalls = <<>>
           /\ request.contentLength = ToDigits(1048576)
                => /\ bodyRead
                   /\ Returned => response.status # 413

C5_Witness ==
    /\ Returned
    /\ request.method = "POST"
    /\ request.contentLength = ToDigits(1048577)
    /\ response.status = 413
    /\ ~bodyRead

JsonContentTypes == {ct \in ContentTypes : ct # Absent /\ "application/json" = ct[1]}
UnparsableBodies == {BrokenJson, ""}

\* C6: a POST from an allowed origin that passes the size check, whose
\* Content-Type contains application/json and whose body is not JSON, is
\* answered 400 and never forwarded.
C6_MalformedJsonIs400 ==
    (/\ FromAllowedOrigin
     /\ request.method = "POST"
     /\ request.contentLength \notin LengthsOverLimit
     /\ request.contentType \in JsonContentTypes
     /\ request.body \in UnparsableBodies)
        => /\ upstreamCalls = <<>>
           /\ proxyPc \in {"awaitBody", "done"}
           /\ Returned => response.status = 400

C6_Witness ==
    /\ Returned
    /\ request.method = "POST"
    /\ request.contentType = <<"application/json", "; charset=utf-8">>
    /\ request.body = BrokenJson
    /\ bodyRead
    /\ response.status = 400

\* C7: an OPTIONS request from an allowed origin is answered 204 with an empty
\* body and the CORS headers, without an upstream call, whatever its other
\* headers and its body.
C7_PreflightIs204 ==
    (FromAllowedOrigin /\ request.method = "OPTIONS")
        => /\ Returned
           /\ response.status = 204
           /\ response.body = NULL
           /\ CorsNames \subseteq DOMAIN response.headers
           /\ response.headers["Access-Control-Allow-Origin"] = request.origin
           /\ upstreamCalls = <<>>
           /\ ~bodyRead

C7_Witness ==
    /\ Returned
    /\ request.method = "OPTIONS"
    /\ request.contentType = JsonType
    /\ request.body = BrokenJson
    /\ request.contentLength = ToDigits(2 * MAX_PAYLOAD_SIZE)
    /\ response.status = 204

\* C8: a request from an allowed origin whose method is not GET, POST or
\* OPTIONS is answered 405 with the header Allow: GET, POST, OPTIONS, without
\* an upstream call.
C8_OtherMethodIs405 ==
    (FromAllowedOrigin /\ request.method \notin {"GET", "POST", "OPTIONS"})
        => /\ Returned
           /\ response.status = 405
           /\ "Allow" \in DOMAIN response.headers
           /\ response.headers["Allow"] = "GET, POST, OPTIONS"
           /\ upstreamCalls = <<>>
           /\ ~bodyRead

C8_Witness ==
    /\ Returned
    /\ request.method = "DELETE"
    /\ request.origin \in ALLOWED_ORIGINS
    /\ response.status = 405

-----------------------------------------------------------------------------
(* EdgeProxy: properties of the relay (checked under ProxySpec) *)

\* how many times x occurs in seq
Count(seq, x) == Cardinality({i \in 1..Len(seq) : seq[i] = x})

\* C14: from the moment a GET from an allowed origin is received, exactly one
\* upstream call has been issued, it is a GET, and its query parameters are
\* those of the inbound request: every key/value pair as many times as it was
\* supplied (repeated keys kept), and nothing else.
C14_GetParamsForwarded ==
    (FromAllowedOrigin /\ request.method = "GET")
        => /\ Len(upstreamCalls) = 1
           /\ upstreamCalls[1].method = "GET"
           /\ Len(upstreamCalls[1].params) = Len(request.params)
           /\ \A pair \in ParamPairs :
                 Count(upstreamCalls[1].params, pair) = Count(request.params, pair)

C14_Witness ==
    /\ Returned
    /\ request.method = "GET"
    /\ request.origin \in ALLOWED_ORIGINS
    /\ request.params = <<<<"action", "getData">>, <<"action", "x">>>>
    /\ Len(upstreamCalls) = 1
    /\ upstreamCalls[1].params = request.params
    /\ response.status = 200

\* the upstream call was issued and handleRequest has returned
UpstreamCalled ==
    /\ Returned
    /\ FromAllowedOrigin
    /\ request.method \in {"GET", "POST"}
    /\ upstreamCalls # <<>>

\* fetch resolved and the body of the upstream response was read
TransportOk == upstream.body # NULL

\* C15 as stated: when the upstream call of a GET or POST from an allowed
\* origin fails at the network level (fetch or the body read rejects), the
\* response is the 500 with the fixed generic JSON body; when it succeeds
\* transport-wise, the response has the status and the body of the upstream
\* response, whatever that status is.
C15_Generic500OrRelayUnchanged ==
    UpstreamCalled
        => IF TransportOk
           THEN /\ response.status = upstream.status
                /\ response.body = upstream.body
           ELSE response = ServerError(request.origin)

-----------------------------------------------------------------------------
(* ApiClient: properties of submitContribution and makeRequest (checked     *)
(* under ClientSpec)                                                       *)

IsPost(call) == call.method = "POST"
Posts(task) == SelectSeq(task.log, IsPost)

\* the calls issued from the first form POST on
RECURSIVE FromFirstPost(_)
FromFirstPost(log) ==
    IF log = <<>> \/ IsPost(Head(log)) THEN log ELSE FromFirstPost(Tail(log))

IsRefresh(call) == call.method = "GET" /\ call.action = "origin"
RetryRefreshes(task) == SelectSeq(FromFirstPost(task.log), IsRefresh)

InvalidToken == Reply("json", Json("error", Jeton, NULL, NULL, NULL))

Invocations == {tasks[t] : t \in Tasks} \cup {settled}

\* C2 as stated: a submitContribution with valid form data whose first POST
\* is answered {result:"error", error:"jeton invalide"} issues one token
\* refresh GET and, once that refresh is over, one resubmission POST with the
\* same form data, so it does not settle before these three calls are made.
C2_InvalidTokenIsRetried ==
    (/\ settled.op = "submit"
     /\ settled.form = ValidForm
     /\ Posts(settled) # <<>>
     /\ Posts(settled)[1].reply = InvalidToken)
        => LET calls == FromFirstPost(settled.log)
           IN  /\ Len(calls) = 3
               /\ IsPost(calls[1]) /\ IsRefresh(calls[2]) /\ IsPost(calls[3])
               /\ calls[2].reply = Settled
               /\ calls[3].form = calls[1].form

FailedReply(reply) ==
    \/ reply.kind \in {"reject", "http", "garbage"}
    \/ reply.kind = "json" /\ reply.json.result = "error"

\* C3: an invocation of submitContribution issues at most two form POSTs and
\* at most one token refresh after its first POST, whatever is answered; it
\* only ever waits for a network call of its own; and when the resubmission
\* fails (a second "jeton invalide" included) the invocation is over and the
\* failure is what its caller gets.
C3_AtMostOneRetry ==
    /\ \A task \in Invocations :
          task.op = "submit"
              => /\ Len(Posts(task)) <= 2
                 /\ Len(RetryRefreshes(task)) <= 1
                 /\ Len(task.log) <= 4
                 /\ Running(task) =>
                        /\ Suspended(task)
                        /\ task.log[Len(task.log)].reply = NoReply
                 /\ (Len(Posts(task)) = 2 /\ FailedReply(Posts(task)[2].reply))
                        => /\ ~Running(task)
                           /\ task.outcome.kind = "throw"

C3_Witness ==
    /\ settled.op = "submit"
    /\ Len(Posts(settled)) = 2
    /\ Posts(settled)[2].reply = InvalidToken
    /\ Len(RetryRefreshes(settled)) = 1
    /\ settled.outcome = Throw(Jeton)

\* C9: when makeRequest handles a 2xx JSON response with a non-empty
\* newCsrfToken, the token held when makeRequest is done with that response is
\* that newCsrfToken, also when the response has a csrfToken; the csrfToken of
\* the response is taken only when it has no newCsrfToken.
C9_NewTokenHasPriority ==
    \A t \in Tasks :
        (Running(tasks[t]) /\ Top(tasks[t]) = "mr.text")
            => \A reply \in TextReplies :
                  LET after == makeRequestRead(This(tasks[t]), reply).csrfToken
                  IN  reply.kind = "json" =>
                        /\ TruthyAtom(reply.json.newCsrfToken)
                              => after = reply.json.newCsrfToken
                        /\ (reply.json.newCsrfToken = NULL
                               /\ TruthyAtom(reply.json.csrfToken))
                              => after = reply.json.csrfToken

C9_Witness ==
    /\ settled.op = "submit"
    /\ Posts(settled) # <<>>
    /\ Posts(settled)[Len(Posts(settled))].reply.json.newCsrfToken = "N1"
    /\ Posts(settled)[Len(Posts(settled))].reply.json.csrfToken = "C2"
    /\ csrfToken = "N1"

RejectedForms == Forms \ {ValidForm}

\* C10 as stated: a submitContribution whose form data validateFormData
\* rejects fails without any network call, in every state of the client.
C10_InvalidFormNoNetworkCall ==
    (settled.op = "submit" /\ settled.form \in RejectedForms)
        => /\ settled.outcome.kind = "throw"
           /\ settled.log = <<>>

\* C10 amended: a submitContribution whose form data validateFormData rejects
\* fails with the validation error and never issues the form POST; it issues
\* no network call at all when the client is initialized at the call, and
\* exactly one, the token refresh GET of the lazy init that runs before the
\* validation, when the client is not initialized (uninitialized or error).
C10_InvalidFormIsNeverPosted ==
    \A task \in Invocations :
        (task.op = "submit" /\ task.form \in RejectedForms)
            => /\ Posts(task) = <<>>
               /\ IF task.lazy
                  THEN Len(task.log) = 1 /\ IsRefresh(task.log[1])
                  ELSE task.log = <<>> /\ ~Running(task)
               /\ ~Running(task) =>
                     /\ task.outcome.kind = "throw"
                     /\ task.outcome.message \in
                           {<<"Champs obligatoires manquants: ", "nom", ", ", "email",
                              ", ", "categorie", ", ", "detail", ", ", "portions">>,
                            <<"Nombre de portions invalide (doit etre entre 1 et 100)">>}

C10_Witness ==
    /\ settled.op = "submit"
    /\ settled.form = TooManyPortions
    /\ settled.lazy
    /\ settled.outcome.kind = "throw"
    /\ Len(settled.log) = 1

-----------------------------------------------------------------------------
(* ApiClient: properties of the readiness protocol (checked under           *)
(* ClientSpec)                                                             *)

LastCall(task) == task.log[Len(task.log)]
IsDataRequest(call) ==
    \/ call.method = "GET" /\ call.action = "getData"
    \/ call.method = "POST" /\ call.action = "form"

\* the invocation waits for the answer to its data request
DataRequestInFlight(task) ==
    /\ task.op \in {"get", "submit"}
    /\ Suspended(task)
    /\ IsDataRequest(LastCall(task))

\* C11 as stated: while the data request of a getContributions or of a
\* submitContribution is in flight the client is ready, that is initialized
\* with a token held. isInitialized is never reset, so a data request sent
\* while the client is not initialized shows in the state that follows the
\* sending.
C11_DataRequestOnlyWhenReady ==
    \A t \in Tasks :
        DataRequestInFlight(tasks[t]) => isInitialized /\ csrfToken # NULL

\* an init whose token refresh waits for the network
InitInFlight(task) ==
    /\ Suspended(task)
    /\ Len(task.stack) >= 3
    /\ task.stack[Len(task.stack) - 2] = "init"
    /\ task.stack[Len(task.stack) - 1] = "refresh"

\* the answers that end the makeRequest the invocation waits in
EndingReplies(task) ==
    IF Top(task) = "mr.fetch" THEN FetchReplies \ {NoReply} ELSE TextReplies

\* the client when makeRequest is done with the answer
AfterMakeRequest(task, reply) ==
    IF Top(task) = "mr.fetch" THEN makeRequestFetched(This(task), reply)
    ELSE makeRequestRead(This(task), reply)

\* the client when the refreshCsrfToken that called makeRequest is over
AfterRefresh(task, reply) == refreshCsrfToken(AfterMakeRequest(task, reply))

\* the client when the init that called refreshCsrfToken is over
AfterInit(task, reply) == init(AfterRefresh(task, reply))

\* what a function that is over hands to its caller
Result(task) == IF Running(task) THEN task.ret ELSE task.outcome

\* C12 as stated: an init in flight together with any other invocations ends,
\* whatever the answer to its token refresh, either with the client ready and
\* one ready event, or with the client not ready, lastError set to the
\* failure message and one error event carrying that message.
C12_InitEndsReadyOrError ==
    \A t \in Tasks :
        InitInFlight(tasks[t]) =>
            \A reply \in EndingReplies(tasks[t]) :
                LET c == AfterInit(tasks[t], reply)
                IN  IF Result(AfterRefresh(tasks[t], reply).task).kind = "return"
                    THEN /\ c.isInitialized
                         /\ c.events = <<ReadyEvent>>
                    ELSE /\ ~c.isInitialized
                         /\ Truthy(c.lastError)
                         /\ c.events = <<ErrorEvent(c.lastError)>>

-----------------------------------------------------------------------------
(* ApiClient: properties of refreshCsrfToken and of the held token (checked *)
(* under ClientSpec)                                                       *)

\* a refreshCsrfToken whose makeRequest waits for the body of the response
RefreshReads(task) ==
    /\ Suspended(task)
    /\ Top(task) = "mr.text"
    /\ Len(task.stack) >= 2
    /\ task.stack[Len(task.stack) - 1] = "refresh"

\* the parsed responses makeRequest returns to its caller
ReturnedReplies == {reply \in TextReplies : ResponseError(reply) = <<>>}

\* C13 as stated: a refreshCsrfToken whose response has no csrfToken field
\* fails with the missing-token error and leaves the held token as it was;
\* one that succeeds leaves the csrfToken of its response as the held token.
C13_MissingTokenLeavesTokenUntouched ==
    \A t \in Tasks :
        RefreshReads(tasks[t]) =>
            \A reply \in ReturnedReplies :
                LET c == AfterRefresh(tasks[t], reply)
                IN  /\ reply.json.csrfToken = NULL
                        => /\ Result(c.task) = Throw(NoTokenMessage)
                           /\ c.csrfToken = csrfToken
                    /\ Result(c.task).kind = "return"
                        => c.csrfToken = reply.json.csrfToken

\* the init invocations whose token refresh is in flight
InitsInFlight == {t \in Tasks : InitInFlight(tasks[t])}

\* the token refresh GETs of init invocations that wait for their answer
PendingInitRefreshes ==
    UNION {{<<t, i>> : i \in {j \in 1..Len(tasks[t].log) :
                                  /\ IsRefresh(tasks[t].log[j])
                                  /\ tasks[t].log[j].reply = NoReply}} :
           t \in InitsInFlight}

\* C17: init invocations are never coalesced. Every init in flight (the
\* constructor's, an explicit one, a lazy one) waits for a token refresh GET
\* that it issued itself, so k inits in flight have k refresh calls pending;
\* and every init whose refresh succeeds emits a ready event of its own,
\* also when the client is initialized already.
C17_InitsAreNotCoalesced ==
    /\ Cardinality(PendingInitRefreshes) = Cardinality(InitsInFlight)
    /\ \A t \in InitsInFlight :
          /\ IsRefresh(LastCall(tasks[t]))
          /\ LastCall(tasks[t]).reply = NoReply
          /\ \A reply \in EndingReplies(tasks[t]) :
                Result(AfterRefresh(tasks[t], reply).task).kind = "return"
                    => AfterInit(tasks[t], reply).events = <<ReadyEvent>>

C17_Witness ==
    /\ Cardinality(InitsInFlight) = 2
    /\ Cardinality(PendingInitRefreshes) = 2
    /\ tasks[Constructor].op = "init"
    /\ \E t \in Tasks : tasks[t].lazy /\ InitInFlight(tasks[t])

\* the token values the responses carry
TokensReceived ==
    ({j.csrfToken : j \in JsonObjects} \cup {j.newCsrfToken : j \in JsonObjects})
        \ {NULL}

\* C18: in every reachable state, under any interleaving of the invocations,
\* a client that is initialized holds a token (no token held implies not
\* initialized), and the held token is null or one whole token value carried
\* by a response.
C18_ReadyImpliesTokenHeld ==
    /\ isInitialized => csrfToken # NULL
    /\ csrfToken = NULL => ~isInitialized
    /\ csrfToken \in {NULL} \cup TokensReceived

C18_Witness ==
    /\ isInitialized
    /\ csrfToken = "N1"
    /\ settled.op = "submit"
    /\ settled.outcome.kind = "throw"
    /\ \E t \in Tasks : Running(tasks[t])

\* a makeRequest that waits for the body of its response
MakeRequestReads(task) == Suspended(task) /\ Top(task) = "mr.text"

\* 2xx JSON responses that report an application error and carry a token
ErrorsWithToken ==
    {reply \in TextReplies :
        /\ reply.kind = "json"
        /\ reply.json.result = "error"
        /\ TruthyAtom(reply.json.newCsrfToken) \/ TruthyAtom(reply.json.csrfToken)}

ErrorWithToken ==
    Reply("json", Json("error", <<"CSRF: ", "jeton invalide">>, "C2", NULL, NULL))

\* C19: a makeRequest whose 2xx JSON response has result "error" and carries
\* a newCsrfToken or a csrfToken fails with the error message of the response,
\* and the token held when it fails is the token of that response (the
\* newCsrfToken if there is one, the csrfToken otherwise).
C19_TokenUpdatedBeforeErrorCheck ==
    /\ ErrorWithToken \in ErrorsWithToken
    /\ \A t \in Tasks :
          MakeRequestReads(tasks[t]) =>
              \A reply \in ErrorsWithToken :
                  LET c == makeRequestRead(This(tasks[t]), reply)
                  IN  /\ Result(c.task) = Throw(reply.json.error)
                      /\ c.lastError = reply.json.error
                      /\ c.csrfToken =
                            IF TruthyAtom(reply.json.newCsrfToken)
                            THEN reply.json.newCsrfToken
                            ELSE reply.json.csrfToken

C19_Witness ==
    /\ settled.op = "submit"
    /\ Posts(settled) # <<>>
    /\ Posts(settled)[Len(Posts(settled))].token = "C1"
    /\ Posts(settled)[Len(Posts(settled))].reply = ErrorWithToken
    /\ settled.outcome = Throw(ErrorWithToken.json.error)
    /\ csrfToken = "C2"

\* the answers that make makeRequest fail before it has a parsed response:
\* a rejected fetch or a non-2xx status while it waits for fetch, a body that
\* is not JSON while it waits for the body
TransportFailures(task) ==
    IF Top(task) = "mr.fetch" THEN {NetworkFailure, HttpError} ELSE {Garbage}

FailureMessage(reply) ==
    CASE reply = NetworkFailure -> FetchMessage
      [] reply = HttpError      -> HttpMessage
      [] reply = Garbage        -> <<"Format de reponse invalide">>

\* C20: a makeRequest that fails on a rejected fetch, on a non-2xx status or
\* on a body that is not JSON throws the corresponding error and leaves the
\* held token and the initialized flag as they were: of the client's fields
\* only lastError changes (to the message of the error), and no event is
\* dispatched.
C20_FailedRequestKeepsTokenAndFlag ==
    \A t \in Tasks :
        Suspended(tasks[t]) =>
            \A reply \in TransportFailures(tasks[t]) :
                LET c == AfterMakeRequest(tasks[t], reply)
                IN  /\ Result(c.task) = Throw(FailureMessage(reply))
                    /\ c.lastError = FailureMessage(reply)
                    /\ c.csrfToken = csrfToken
                    /\ c.isInitialized = isInitialized
                    /\ c.events = <<>>

C20_Witness ==
    /\ settled.op = "get"
    /\ ~settled.lazy
    /\ settled.outcome = Throw(HttpMessage)
    /\ lastError = GetPrefix \o HttpMessage
    /\ isInitialized
    /\ csrfToken = "C1"

-----------------------------------------------------------------------------
(* ApiClient: properties of validateFormData (checked under ValidateSpec) *)

\* the integer a count field of the form was written from
IntOf(field, largest) == CHOOSE k \in -1..largest : NumberToString(k) = field

\* C16: for a form that is otherwise valid and whose portions and nbPersonnes
\* are integers, validateFormData returns true exactly when portions is in
\* [1,100] and nbPersonnes is in [1,20], and throws otherwise (it accepts
\* 100 and 20, and throws for 101 and for 0).
C16_CountsWithinBounds ==
    verdict # Absent =>
        LET portions    == IntOf(checkedForm.portions, MaxPortions)
            nbPersonnes == IntOf(checkedForm.nbPersonnes, MaxPersons)
        IN  IF portions \in 1..100 /\ nbPersonnes \in 1..20
            THEN verdict = Valid
            ELSE verdict \in
                    {<<"Nombre de personnes invalide (doit etre entre 1 et 20)">>,
                     <<"Nombre de portions invalide (doit etre entre 1 et 100)">>}

C16_Witness ==
    /\ checkedForm = CountForm(100, 20)
    /\ verdict = Valid

=============================================================================
